---------------------------- MODULE Spec2Model ----------------------------
(***************************************************************************)
(* News retrieval and sentiment aggregation pipeline of stocksenti, in its *)
(* two front ends: the Telegram bot (src/telegram_bot.py) and the          *)
(* Streamlit dashboard (src/sentiment.py).                                 *)
(*                                                                         *)
(* Conventions.  Python strings are TLA+ strings, handled character by     *)
(* character (SubSeq) where the code upper-cases, title-cases or searches  *)
(* them.  A confidence is an integer number of hundredths (0.87 is 87); a  *)
(* mean is the exact fraction [sum, n] (sum hundredths over n articles).   *)
(* An optional value is a sequence: <<>> is None, <<v>> is the value v.    *)
(* The outcome of a call that may raise is [raised, value].                *)
(***************************************************************************)
EXTENDS Integers, Sequences, FiniteSets, TLC

VARIABLES
    frontend,            \* "bot" or "dashboard": which program runs the request
    finnhub_key,         \* FINNHUB_API_KEY is set
    newsapi_key,         \* NEWSAPI_KEY is set
    finnhub_client,      \* the Finnhub client object exists (is not None)
    newsapi,             \* the NewsAPI client object exists (is not None)
    sentiment_pipeline,  \* the sentiment model is loaded (is not None)
    pc,                  \* position of the request in its handler
    company_name,        \* the company asked for
    news_source,         \* provider of the request: "finnhub" or "newsapi"
    num_articles,        \* dashboard: the "Number of Articles" slider
    company_symbol,      \* optional: what get_company_symbol returned
    calls,               \* external calls made by the request, in order
    articles,            \* what the fetch returned (article records)
    search_results,      \* optional: the outcome of the symbol_lookup call
    news,                \* optional: the outcome of the provider's news call
    results,             \* optional: the outcome of the sentiment model call
    sentiment_results,   \* what analyze_sentiment returned
    overall_sentiment,   \* optional: the aggregate of the request
    most_positive,       \* the reported most-positive headlines, best first
    most_negative,       \* the reported most-negative headlines, best first
    message,             \* what the request last showed the user
    warnings,            \* dashboard: the st.warning / st.error notices shown
    tasks                \* bot: the analyze_command coroutines of the event loop

vars == << frontend, finnhub_key, newsapi_key, finnhub_client, newsapi,
           sentiment_pipeline, pc, company_name, news_source, num_articles,
           company_symbol,
           calls, search_results, news, articles, results, sentiment_results, overall_sentiment,
           most_positive, most_negative, message, warnings, tasks >>

None == << >>

Some(v) == << v >>

Returned(v) == [raised |-> FALSE, value |-> v]

Raised == [raised |-> TRUE, value |-> << >>]

(***************************************************************************)
(* Python string methods.                                                  *)
(***************************************************************************)
LowerCase == "abcdefghijklmnopqrstuvwxyz"

UpperCase == "ABCDEFGHIJKLMNOPQRSTUVWXYZ"

CharAt(s, i) == SubSeq(s, i, i)

IsLower(c) == \E k \in 1..Len(LowerCase) : CharAt(LowerCase, k) = c

IsUpper(c) == \E k \in 1..Len(UpperCase) : CharAt(UpperCase, k) = c

IsCased(c) == IsLower(c) \/ IsUpper(c)

UpperChar(c) ==
    IF IsLower(c)
    THEN CharAt(UpperCase, CHOOSE k \in 1..Len(LowerCase) : CharAt(LowerCase, k) = c)
    ELSE c

LowerChar(c) ==
    IF IsUpper(c)
    THEN CharAt(LowerCase, CHOOSE k \in 1..Len(UpperCase) : CharAt(UpperCase, k) = c)
    ELSE c

RECURSIVE upper(_)
\* str.upper(): every cased character upper-cased, the others kept.
upper(s) ==
    IF Len(s) = 0 THEN ""
    ELSE UpperChar(CharAt(s, 1)) \o upper(SubSeq(s, 2, Len(s)))

RECURSIVE lower(_)
\* str.lower()
lower(s) ==
    IF Len(s) = 0 THEN ""
    ELSE LowerChar(CharAt(s, 1)) \o lower(SubSeq(s, 2, Len(s)))

RECURSIVE TitleFrom(_, _)
TitleFrom(s, prevCased) ==
    IF Len(s) = 0 THEN ""
    ELSE LET c == CharAt(s, 1)
         IN  (IF prevCased THEN LowerChar(c) ELSE UpperChar(c))
                 \o TitleFrom(SubSeq(s, 2, Len(s)), IsCased(c))

\* str.title(): a cased character is upper-cased after an uncased one (or at
\* the start) and lower-cased after a cased one.
title(s) == TitleFrom(s, FALSE)

\* Python's `word in text` for strings: word occurs as a substring.
Contains(text, word) ==
    \E i \in 1..(Len(text) - Len(word) + 1) :
        SubSeq(text, i, i + Len(word) - 1) = word

(***************************************************************************)
(* Sentiment classifier adapter: analyze_sentiment.                        *)
(***************************************************************************)
\* The label_mapping dict of analyze_sentiment, as its set of key/value pairs.
label_mapping ==
    { <<"LABEL_0", "NEGATIVE">>, <<"LABEL_1", "NEUTRAL">>, <<"LABEL_2", "POSITIVE">>,
      <<"NEGATIVE", "NEGATIVE">>, <<"NEUTRAL", "NEUTRAL">>, <<"POSITIVE", "POSITIVE">> }

\* dict.get(key, default)
MappingGet(mapping, key, default) ==
    IF \E kv \in mapping : kv[1] = key
    THEN (CHOOSE kv \in mapping : kv[1] = key)[2]
    ELSE default

\* The first pair of the list taken whatever its score.
FirstOfItems(items) == items[1]

\* max(result, key=lambda x: x['score']): the first element of greatest score.
MaxByScore(items) ==
    items[CHOOSE i \in 1..Len(items) :
            /\ \A j \in 1..Len(items) : items[j].score <= items[i].score
            /\ \A j \in 1..(i - 1) : items[j].score < items[i].score]

\* The loop body with the positional tags read in the reverse order.
ProcessResultSwapped(result) ==
    LET r == IF result.is_list THEN MaxByScore(result.items) ELSE result.items[1]
        label == upper(r.label)
    IN  [label |-> MappingGet({ <<"LABEL_0", "POSITIVE">>, <<"LABEL_1", "NEUTRAL">>,
                                <<"LABEL_2", "NEGATIVE">>, <<"NEGATIVE", "NEGATIVE">>,
                                <<"NEUTRAL", "NEUTRAL">>, <<"POSITIVE", "POSITIVE">> },
                              label, label),
         score |-> r.score]

\* The body of analyze_sentiment's loop for one model result.  A model result
\* is [is_list, items]: a single {label, score} dict (is_list FALSE, one item)
\* or a list of such dicts (is_list TRUE).
ProcessResult(result) ==
    LET r == IF result.is_list THEN MaxByScore(result.items) ELSE result.items[1]
        label == upper(r.label)
    IN  [label |-> MappingGet(label_mapping, label, label), score |-> r.score]

ProcessResults(rs) == [i \in 1..Len(rs) |-> ProcessResult(rs[i])]

\* FinancialSentimentBot.analyze_sentiment(texts), given the model's answer
\* (a call outcome, consulted only when the model is invoked).
BotAnalyzeSentiment(texts, loaded, answer) ==
    IF Len(texts) = 0 \/ ~loaded THEN Returned(<< >>)
    ELSE IF answer.raised THEN Returned(<< >>)
    ELSE Returned(ProcessResults(answer.value))

\* sentiment.py analyze_sentiment(headlines): no guard on the model, no try.
DashAnalyzeSentiment(headlines, answer) ==
    IF Len(headlines) = 0 THEN Returned(<< >>)
    ELSE IF answer.raised THEN Raised
    ELSE Returned(ProcessResults(answer.value))

\* Whether analyze_sentiment invokes the model at all.
InvokesModel(fe, texts, loaded) ==
    IF fe = "bot" THEN Len(texts) > 0 /\ loaded ELSE Len(texts) > 0

(***************************************************************************)
(* Aggregator: calculate_overall_sentiment (bot) and the value_counts /    *)
(* idxmax / mean computation of the dashboard's main script.               *)
(***************************************************************************)
Min(a, b) == IF a <= b THEN a ELSE b

RECURSIVE SumScores(_)
\* sum(r['score'] for r in rs), in hundredths
SumScores(rs) ==
    IF Len(rs) = 0 THEN 0 ELSE rs[1].score + SumScores(Tail(rs))

\* sum(1 for r in rs if r['label'] == lab)
CountLabel(rs, lab) == Cardinality({ i \in 1..Len(rs) : rs[i].label = lab })

\* The subsequence of rs whose label is lab, in order.
RECURSIVE WithLabel(_, _)
WithLabel(rs, lab) ==
    IF Len(rs) = 0 THEN << >>
    ELSE IF rs[1].label = lab THEN << rs[1] >> \o WithLabel(Tail(rs), lab)
    ELSE WithLabel(Tail(rs), lab)

\* The number 0 and the mean of the scores of rs, as fractions of hundredths.
ZeroMean == [sum |-> 0, n |-> 1]

MeanScore(rs) == [sum |-> SumScores(rs), n |-> Len(rs)]

\* telegram_bot.py 335-340
BotVerdict(positive_count, negative_count) ==
    IF positive_count > negative_count THEN "POSITIVE"
    ELSE IF negative_count > positive_count THEN "NEGATIVE"
    ELSE "NEUTRAL"

\* Mutated empty-input result of the bot: the total is reported as 1.
BotEmptyAggregateOne ==
    [overall_sentiment |-> "NEUTRAL", confidence |-> ZeroMean, positive_count |-> 0,
     negative_count |-> 0, neutral_count |-> 0, total_articles |-> 1]

\* telegram_bot.py 318-326
BotEmptyAggregate ==
    [overall_sentiment |-> "NEUTRAL", confidence |-> ZeroMean, positive_count |-> 0,
     negative_count |-> 0, neutral_count |-> 0, total_articles |-> 0]

\* Mutated mean: taken over the articles of the verdict's label only.
BotAvgConfidenceOfVerdict(rs, verdict) ==
    IF CountLabel(rs, verdict) = 0 THEN ZeroMean ELSE MeanScore(WithLabel(rs, verdict))

\* telegram_bot.py 343
BotAvgConfidence(rs, verdict) == MeanScore(rs)

\* The aggregation with the verdict going to NEUTRAL whenever the neutral
\* articles are at least as many as the positive and as the negative ones.
CalculateWithNeutralMajority(rs) ==
    IF Len(rs) = 0 THEN BotEmptyAggregate
    ELSE LET positive_count == CountLabel(rs, "POSITIVE")
             negative_count == CountLabel(rs, "NEGATIVE")
             neutral_count  == CountLabel(rs, "NEUTRAL")
             verdict        == IF neutral_count >= positive_count
                                    /\ neutral_count >= negative_count
                               THEN "NEUTRAL"
                               ELSE BotVerdict(positive_count, negative_count)
         IN  [overall_sentiment |-> verdict,
              confidence        |-> BotAvgConfidence(rs, verdict),
              positive_count    |-> positive_count,
              negative_count    |-> negative_count,
              neutral_count     |-> neutral_count,
              total_articles    |-> Len(rs)]

\* FinancialSentimentBot.calculate_overall_sentiment(sentiment_results)
calculate_overall_sentiment(rs) ==
    IF Len(rs) = 0 THEN BotEmptyAggregate
    ELSE LET positive_count == CountLabel(rs, "POSITIVE")
             negative_count == CountLabel(rs, "NEGATIVE")
             neutral_count  == CountLabel(rs, "NEUTRAL")
             verdict        == BotVerdict(positive_count, negative_count)
         IN  [overall_sentiment |-> verdict,
              confidence        |-> BotAvgConfidence(rs, verdict),
              positive_count    |-> positive_count,
              negative_count    |-> negative_count,
              neutral_count     |-> neutral_count,
              total_articles    |-> Len(rs)]

\* Dashboard 326-340: the Sentiment and Confidence columns of df, one row per
\* classified headline (label title-cased).
DashRows(headlines, rs) ==
    [i \in 1..Len(rs) |->
        [headline |-> headlines[i], label |-> title(rs[i].label), score |-> rs[i].score]]

\* df['Sentiment'].value_counts(): the labels that occur, each with its count.
ValueCounts(rows) == { rows[i].label : i \in 1..Len(rows) }

\* sentiment_counts.get(lab, 0)
CountsGet(rows, lab) == CountLabel(rows, lab)

\* sentiment_counts.idxmax(): a label of greatest count.  value_counts sorts by
\* count with the default (unstable) sort, so which of several labels of equal
\* greatest count comes first is not determined by the code.
IdxMaxChoices(rows) ==
    { lab \in ValueCounts(rows) :
        \A other \in ValueCounts(rows) : CountLabel(rows, other) <= CountLabel(rows, lab) }

\* Dashboard 343-359 and 372-385, for the label idxmax picked.
DashAggregate(rows, dominant) ==
    [overall_sentiment |-> dominant,
     confidence        |-> IF ValueCounts(rows) # {} THEN MeanScore(rows) ELSE ZeroMean,
     positive_count    |-> CountsGet(rows, "Positive"),
     negative_count    |-> CountsGet(rows, "Negative"),
     neutral_count     |-> CountsGet(rows, "Neutral"),
     total_articles    |-> Len(rows)]

DashDominantChoices(rows) ==
    IF ValueCounts(rows) # {} THEN IdxMaxChoices(rows) ELSE { "Neutral" }

(***************************************************************************)
(* Top exemplars (Key Insights).                                           *)
(***************************************************************************)
HeadlineCut == 100

HeadCount == 3

\* s[:n]
Prefix(s, n) == SubSeq(s, 1, Min(n, Len(s)))

\* Bot 464-471: one row per index present in both lists.
BotRows(arts, rs) ==
    [i \in 1..Min(Len(arts), Len(rs)) |->
        [headline |-> arts[i].title, label |-> rs[i].label, score |-> rs[i].score]]

\* DataFrame.nlargest(1, 'confidence') (keep='first'): the first row of
\* greatest confidence.
NLargest(rows) == MaxByScore(rows)

\* Bot 473-479: the headline reported for label lab, if any.
BotMost(rows, lab) ==
    IF Len(WithLabel(rows, lab)) > 0
    THEN Some(Prefix(NLargest(WithLabel(rows, lab)).headline, HeadlineCut))
    ELSE None

\* The orders sort_values('Confidence', ascending=False) may produce: every
\* arrangement of the rows by non-increasing confidence (the default sort is
\* not stable, so rows of equal confidence come in any order).
Arrangements(n) ==
    { p \in [1..n -> 1..n] : \A i, j \in 1..n : i # j => p[i] # p[j] }

SortedDescending(rows) ==
    { [i \in 1..Len(rows) |-> rows[p[i]]] : p \in
        { q \in Arrangements(Len(rows)) :
            \A i \in 1..(Len(rows) - 1) : rows[q[i]].score >= rows[q[i + 1]].score } }

\* Dashboard 432-442: the headlines listed for label lab, best first, for each
\* order the sort may produce.
DashMostChoices(rows, lab) ==
    { [i \in 1..Min(HeadCount, Len(sorted)) |-> sorted[i].headline] :
        sorted \in SortedDescending(WithLabel(rows, lab)) }

(***************************************************************************)
(* Symbol resolver: get_company_symbol.  The provider's answer is a call   *)
(* outcome whose value is optional: None stands for a falsy answer or one  *)
(* without a 'result' key, Some(candidates) for {'result': candidates}.    *)
(* A candidate is [type, symbol] with symbol optional (the key may miss).  *)
(***************************************************************************)
\* r.get('symbol', '')
SymbolOrEmpty(r) == IF r.symbol = None THEN "" ELSE r.symbol[1]

IsCommonStock(r) == r.type = "Common Stock"

IsUsStock(r) == IsCommonStock(r) /\ ~Contains(SymbolOrEmpty(r), ".")

\* The candidate get_company_symbol settles on, if any: the first US stock,
\* else the first common stock (lines 197-205 / 149-156).
ChosenCandidate(candidates) ==
    LET us_stocks == SelectSeq(candidates, IsUsStock)
        common    == SelectSeq(candidates, IsCommonStock)
    IN  IF Len(us_stocks) > 0 THEN Some(us_stocks[1])
        ELSE IF Len(common) > 0 THEN Some(common[1])
        ELSE None

\* Whether get_company_symbol calls symbol_lookup.
CallsLookup(client) == client

\* FinancialSentimentBot.get_company_symbol(company_name): always a string,
\* the company name itself whenever no symbol is found.
BotGetCompanySymbol(company, client, answer) ==
    IF ~client \/ answer.raised \/ answer.value = None THEN company
    ELSE LET chosen == ChosenCandidate(answer.value[1])
         IN  IF chosen = None \/ chosen[1].symbol = None THEN company
             ELSE chosen[1].symbol[1]

\* sentiment.py get_company_symbol(company_name): Optional[str].
DashGetCompanySymbol(company, client, answer) ==
    IF ~client \/ answer.raised \/ answer.value = None THEN None
    ELSE LET chosen == ChosenCandidate(answer.value[1])
         IN  IF chosen = None THEN None ELSE chosen[1].symbol

(***************************************************************************)
(* News fetcher.                                                           *)
(***************************************************************************)
BotArticleLimit == 20

\* The ['reliance', ...] list of fetch_news_newsapi (both front ends).
QueryKeywords ==
    { "reliance", "tcs", "infosys", "hdfc", "wipro", "icici", "bharti", "tata" }

\* The indian_companies list of analyze_command and of fetch_news.
RoutingKeywords ==
    { "reliance", "tcs", "infosys", "hdfc", "wipro", "icici", "bharti", "airtel",
      "sbi", "maruti" }

\* any(word in company.lower() for word in keywords)
MatchesAny(company, keywords) == \E word \in keywords : Contains(lower(company), word)

Quoted(t) == "\"" \o t \o "\""

\* Bot 251-253
BotSearchQuery(company) ==
    LET indian_terms ==
            IF MatchesAny(company, QueryKeywords)
            THEN " OR " \o Quoted(company \o " India") \o " OR "
                     \o Quoted(company \o " NSE") \o " OR " \o Quoted(company \o " BSE")
            ELSE ""
    IN  Quoted(company) \o " OR " \o Quoted(company \o " stock") \o " OR "
            \o Quoted(company \o " shares") \o indian_terms

\* Dashboard 169-170
DashSearchQuery(company) ==
    LET indian_terms ==
            IF MatchesAny(company, QueryKeywords)
            THEN Quoted(company \o " India") \o " OR "
                     \o Quoted(company \o " NSE") \o " OR " \o Quoted(company \o " BSE")
            ELSE ""
    IN  Quoted(company) \o " OR " \o Quoted(company \o " stock") \o " OR "
            \o Quoted(company \o " shares") \o " " \o indian_terms

HasHeadline(entry) == entry.headline # ""

HasTitle(article) == article.title # ""

\* The loop of fetch_news_finnhub: the first `limit` entries of the answer,
\* those with a headline kept and mapped to article records.
FinnhubArticles(entries, limit) ==
    LET kept == SelectSeq(SubSeq(entries, 1, Min(limit, Len(entries))), HasHeadline)
    IN  [i \in 1..Len(kept) |-> [title |-> kept[i].headline]]

\* fetch_news_finnhub(company_symbol, ...) of either front end.
FetchNewsFinnhub(client, answer, limit) ==
    IF ~client \/ answer.raised THEN << >>
    ELSE FinnhubArticles(answer.value, limit)

\* FinancialSentimentBot.fetch_news_newsapi: the answer is [status, articles].
BotFetchNewsNewsapi(client, answer) ==
    IF ~client \/ answer.raised THEN << >>
    ELSE IF answer.value.status = "ok"
    THEN LET kept == SelectSeq(answer.value.articles, HasTitle)
         IN  [i \in 1..Len(kept) |-> [title |-> kept[i].title]]
    ELSE << >>

\* sentiment.py fetch_news_newsapi: the provider's articles as they come.
DashFetchNewsNewsapi(client, answer) ==
    IF ~client \/ answer.raised THEN << >>
    ELSE IF answer.value.status = "ok" THEN answer.value.articles
    ELSE << >>

(***************************************************************************)
(* State after construction.                                               *)
(***************************************************************************)
\* The slider values the dashboard is run with (default 20, range 5..50).
NumArticlesChoices == { 20 }

\* FinancialSentimentBot.__init__ / _initialize_apis: one try block builds the
\* NewsAPI client, the Finnhub client and the model in this order, each client
\* only when its key is set; an exception leaves everything after it None.
BotConstructed ==
    /\ frontend = "bot"
    /\ newsapi_key \in BOOLEAN
    /\ finnhub_key \in BOOLEAN
    /\ \E failed_at \in { "nowhere", "newsapi", "finnhub", "model" } :
          /\ failed_at = "newsapi" => newsapi_key
          /\ failed_at = "finnhub" => finnhub_key
          /\ newsapi = (newsapi_key /\ failed_at # "newsapi")
          /\ finnhub_client = (finnhub_key /\ failed_at \notin { "newsapi", "finnhub" })
          /\ sentiment_pipeline = (failed_at = "nowhere")
    /\ news_source = ""
    /\ num_articles = BotArticleLimit

\* sentiment.py 36-59 and the sidebar: each client is built when its key is set
\* and its constructor does not raise; the script does not run past a failed
\* model load.
DashConstructed ==
    /\ frontend = "dashboard"
    /\ newsapi_key \in BOOLEAN
    /\ finnhub_key \in BOOLEAN
    /\ newsapi \in { b \in BOOLEAN : b => newsapi_key }
    /\ finnhub_client \in { b \in BOOLEAN : b => finnhub_key }
    /\ sentiment_pipeline = TRUE
    /\ news_source \in { "finnhub", "newsapi" }
    /\ num_articles \in NumArticlesChoices

NoRequest ==
    /\ pc = "idle"
    /\ company_name = ""
    /\ company_symbol = None
    /\ calls = << >>
    /\ search_results = None
    /\ news = None
    /\ articles = << >>
    /\ results = None
    /\ sentiment_results = << >>
    /\ overall_sentiment = None
    /\ most_positive = None
    /\ most_negative = None
    /\ message = ""
    /\ warnings = {}

\* No coroutine besides the request at hand.
NoTasks == [running |-> 1, args |-> << >>, frames |-> << >>]

Init == (BotConstructed \/ DashConstructed) /\ NoRequest /\ tasks = NoTasks

Call(fn, arg, answer) == [fn |-> fn, arg |-> arg, raised |-> answer.raised]

config == << frontend, finnhub_key, newsapi_key, finnhub_client, newsapi,
             sentiment_pipeline, num_articles >>

(***************************************************************************)
(* The bot's analyze_command, one action per stretch between its calls.    *)
(***************************************************************************)
\* use_newsapi of analyze_command (377-378)
UseNewsapi(company) == MatchesAny(company, RoutingKeywords)

\* 356-373: the usage reply without arguments, else the status message.
BotAnalyzeCommand(company) ==
    /\ frontend = "bot" /\ pc = "idle"
    /\ IF company = ""
       THEN /\ message' = "usage"
            /\ pc' = "done"
            /\ UNCHANGED company_name
       ELSE /\ message' = "status"
            /\ pc' = "started"
            /\ company_name' = company
    /\ UNCHANGED << config, tasks, news_source, company_symbol, calls, search_results, news,
                    articles, results, sentiment_results, overall_sentiment,
                    most_positive, most_negative, warnings >>

\* 381-389: the NewsAPI branch.
BotFetchNewsapi(answer) ==
    /\ frontend = "bot" /\ pc = "started"
    /\ UseNewsapi(company_name)
    /\ news_source' = "newsapi"
    /\ articles' = BotFetchNewsNewsapi(newsapi, answer)
    /\ IF newsapi
       THEN /\ calls' = Append(calls, Call("get_everything", BotSearchQuery(company_name), answer))
            /\ news' = Some(answer)
       ELSE UNCHANGED << calls, news >>
    /\ pc' = "fetched"
    /\ UNCHANGED << config, tasks, company_name, company_symbol, search_results, results,
                    sentiment_results, overall_sentiment, most_positive, most_negative,
                    message, warnings >>

\* 390-397: the Finnhub branch, up to the symbol.
BotGetSymbol(answer) ==
    /\ frontend = "bot" /\ pc = "started"
    /\ ~UseNewsapi(company_name)
    /\ news_source' = "finnhub"
    /\ company_symbol' = Some(BotGetCompanySymbol(company_name, finnhub_client, answer))
    /\ IF CallsLookup(finnhub_client)
       THEN /\ calls' = Append(calls, Call("symbol_lookup", company_name, answer))
            /\ search_results' = Some(answer)
       ELSE UNCHANGED << calls, search_results >>
    /\ pc' = "symbol"
    /\ UNCHANGED << config, tasks, company_name, news, articles, results, sentiment_results,
                    overall_sentiment, most_positive, most_negative, message, warnings >>

\* 398-405
BotFetchFinnhub(answer) ==
    /\ frontend = "bot" /\ pc = "symbol"
    /\ articles' = FetchNewsFinnhub(finnhub_client, answer, BotArticleLimit)
    /\ IF finnhub_client
       THEN /\ calls' = Append(calls, Call("company_news", company_symbol[1], answer))
            /\ news' = Some(answer)
       ELSE UNCHANGED << calls, news >>
    /\ pc' = "fetched"
    /\ UNCHANGED << config, tasks, company_name, news_source, company_symbol, search_results,
                    results, sentiment_results, overall_sentiment, most_positive,
                    most_negative, message, warnings >>

\* The no-articles branch starting the fetch over after a failed news call.
BotNoArticlesRetry ==
    /\ frontend = "bot" /\ pc = "fetched"
    /\ Len(articles) = 0
    /\ IF news # None /\ news[1].raised
       THEN /\ pc' = "started"
            /\ UNCHANGED message
       ELSE /\ pc' = "done"
            /\ message' = "no_articles"
    /\ UNCHANGED << config, tasks, company_name, news_source, company_symbol, calls,
                    search_results, news, articles, results, sentiment_results,
                    overall_sentiment, most_positive, most_negative, warnings >>

\* 407-417
BotNoArticles ==
    /\ frontend = "bot" /\ pc = "fetched"
    /\ Len(articles) = 0
    /\ message' = "no_articles"
    /\ pc' = "done"
    /\ UNCHANGED << config, tasks, company_name, news_source, company_symbol, calls,
                    search_results, news, articles, results, sentiment_results,
                    overall_sentiment, most_positive, most_negative, warnings >>

\* The classification entered whatever the fetch returned.
BotFoundUnguarded ==
    /\ frontend = "bot" /\ pc = "fetched"
    /\ message' = "running"
    /\ pc' = "classify"
    /\ UNCHANGED << config, tasks, company_name, news_source, company_symbol, calls,
                    search_results, news, articles, results, sentiment_results,
                    overall_sentiment, most_positive, most_negative, warnings >>

\* 420-425
BotFound ==
    /\ frontend = "bot" /\ pc = "fetched"
    /\ Len(articles) > 0
    /\ message' = "running"
    /\ pc' = "classify"
    /\ UNCHANGED << config, tasks, company_name, news_source, company_symbol, calls,
                    search_results, news, articles, results, sentiment_results,
                    overall_sentiment, most_positive, most_negative, warnings >>

\* [article['title'] for article in articles]
Headlines(arts) == [i \in 1..Len(arts) |-> arts[i].title]

\* analyze_sentiment of the front end fe.
AnalyzeSentiment(fe, texts, loaded, answer) ==
    IF fe = "bot" THEN BotAnalyzeSentiment(texts, loaded, answer)
    ELSE DashAnalyzeSentiment(texts, answer)

\* The model call analyze_sentiment makes on the request's headlines, if any.
ModelCalled(answer) ==
    IF InvokesModel(frontend, Headlines(articles), sentiment_pipeline)
    THEN /\ calls' = Append(calls, Call("sentiment_pipeline", "", answer))
         /\ results' = Some(answer)
    ELSE UNCHANGED << calls, results >>

\* 427-428
BotClassify(answer) ==
    /\ frontend = "bot" /\ pc = "classify"
    /\ sentiment_results' =
           BotAnalyzeSentiment(Headlines(articles), sentiment_pipeline, answer).value
    /\ ModelCalled(answer)
    /\ pc' = "aggregate"
    /\ UNCHANGED << config, tasks, company_name, news_source, company_symbol, search_results,
                    news, articles, overall_sentiment, most_positive, most_negative,
                    message, warnings >>

\* 429
BotAggregate ==
    /\ frontend = "bot" /\ pc = "aggregate"
    /\ overall_sentiment' = Some(calculate_overall_sentiment(sentiment_results))
    /\ pc' = "render"
    /\ UNCHANGED << config, tasks, company_name, news_source, company_symbol, calls,
                    search_results, news, articles, results, sentiment_results,
                    most_positive, most_negative, message, warnings >>

\* The rendering without the except clause: the exception of the division
\* leaves the handler and the status message stays as it was.
BotRenderUncaught ==
    /\ frontend = "bot" /\ pc = "render"
    /\ IF overall_sentiment[1].total_articles = 0
       THEN UNCHANGED << most_positive, most_negative, message >>
       ELSE /\ most_positive' = BotMost(BotRows(articles, sentiment_results), "POSITIVE")
            /\ most_negative' = BotMost(BotRows(articles, sentiment_results), "NEGATIVE")
            /\ message' = "results"
    /\ pc' = "done"
    /\ UNCHANGED << config, tasks, company_name, news_source, company_symbol, calls,
                    search_results, news, articles, results, sentiment_results,
                    overall_sentiment, warnings >>

\* 445-500: the result message divides by total_articles; a ZeroDivisionError
\* lands in the except clause, which shows the error message instead.
BotRender ==
    /\ frontend = "bot" /\ pc = "render"
    /\ IF overall_sentiment[1].total_articles = 0
       THEN /\ message' = "error"
            /\ UNCHANGED << most_positive, most_negative >>
       ELSE /\ most_positive' = BotMost(BotRows(articles, sentiment_results), "POSITIVE")
            /\ most_negative' = BotMost(BotRows(articles, sentiment_results), "NEGATIVE")
            /\ message' = "results"
    /\ pc' = "done"
    /\ UNCHANGED << config, tasks, company_name, news_source, company_symbol, calls,
                    search_results, news, articles, results, sentiment_results,
                    overall_sentiment, warnings >>

(***************************************************************************)
(* The dashboard's script run after the Analyze button (sentiment.py       *)
(* 295-458), with fetch_news (214-231) in line.                            *)
(***************************************************************************)
\* Python truthiness of an Optional[str]
Truthy(opt) == opt # None /\ opt[1] # ""

\* 295-306 and 460-463
DashAnalyzeButton(company) ==
    /\ frontend = "dashboard" /\ pc = "idle"
    /\ IF company = ""
       THEN /\ message' = "welcome"
            /\ pc' = "done"
            /\ UNCHANGED << company_name, warnings >>
       ELSE /\ company_name' = company
            /\ IF \/ news_source = "newsapi" /\ ~newsapi_key
                  \/ news_source = "finnhub" /\ ~finnhub_key
               THEN /\ message' = "missing_key"
                    /\ pc' = "done"
                    /\ UNCHANGED warnings
               ELSE /\ message' = "spinner"
                    /\ pc' = "started"
                    /\ warnings' = IF news_source = "newsapi"
                                   THEN warnings \cup { "development_mode" }
                                   ELSE warnings
    /\ UNCHANGED << config, tasks, news_source, company_symbol, calls, search_results, news,
                    articles, results, sentiment_results, overall_sentiment,
                    most_positive, most_negative >>

\* fetch_news 215-226: the symbol lookup and, without a symbol, the empty result.
DashGetSymbol(answer) ==
    /\ frontend = "dashboard" /\ pc = "started"
    /\ news_source = "finnhub" /\ finnhub_client
    /\ LET symbol == DashGetCompanySymbol(company_name, finnhub_client, answer)
           failed == IF answer.raised THEN { "symbol_lookup_failed" } ELSE {}
       IN  /\ company_symbol' = symbol
           /\ IF Truthy(symbol)
              THEN /\ pc' = "symbol"
                   /\ warnings' = warnings \cup failed
              ELSE /\ pc' = "fetched"
                   /\ warnings' = warnings \cup failed \cup
                          { IF MatchesAny(company_name, RoutingKeywords)
                            THEN "indian_company_hint" ELSE "symbol_not_found" }
    /\ calls' = Append(calls, Call("symbol_lookup", company_name, answer))
    /\ search_results' = Some(answer)
    /\ UNCHANGED << config, tasks, company_name, news_source, news, articles, results,
                    sentiment_results, overall_sentiment, most_positive, most_negative,
                    message >>

\* fetch_news 218 -> fetch_news_finnhub
DashFetchFinnhub(answer) ==
    /\ frontend = "dashboard" /\ pc = "symbol"
    /\ articles' = FetchNewsFinnhub(finnhub_client, answer, num_articles)
    /\ calls' = Append(calls, Call("company_news", company_symbol[1], answer))
    /\ news' = Some(answer)
    /\ warnings' = IF answer.raised THEN warnings \cup { "fetch_error" } ELSE warnings
    /\ pc' = "fetched"
    /\ UNCHANGED << config, tasks, company_name, news_source, company_symbol, search_results,
                    results, sentiment_results, overall_sentiment, most_positive,
                    most_negative, message >>

\* The NewsAPI branch taken whenever a NewsAPI client exists and the Finnhub
\* branch was not, whatever source was selected.
DashFetchNewsapiAnySource(answer) ==
    /\ frontend = "dashboard" /\ pc = "started"
    /\ ~(news_source = "finnhub" /\ finnhub_client)
    /\ newsapi
    /\ articles' = DashFetchNewsNewsapi(newsapi, answer)
    /\ calls' = Append(calls, Call("get_everything", DashSearchQuery(company_name), answer))
    /\ news' = Some(answer)
    /\ warnings' = IF answer.raised THEN warnings \cup { "fetch_error" } ELSE warnings
    /\ pc' = "fetched"
    /\ UNCHANGED << config, tasks, company_name, news_source, company_symbol, search_results,
                    results, sentiment_results, overall_sentiment, most_positive,
                    most_negative, message >>

\* fetch_news 227-228 -> fetch_news_newsapi
DashFetchNewsapi(answer) ==
    /\ frontend = "dashboard" /\ pc = "started"
    /\ ~(news_source = "finnhub" /\ finnhub_client)
    /\ news_source = "newsapi" /\ newsapi
    /\ articles' = DashFetchNewsNewsapi(newsapi, answer)
    /\ calls' = Append(calls, Call("get_everything", DashSearchQuery(company_name), answer))
    /\ news' = Some(answer)
    /\ warnings' = IF answer.raised THEN warnings \cup { "fetch_error" } ELSE warnings
    /\ pc' = "fetched"
    /\ UNCHANGED << config, tasks, company_name, news_source, company_symbol, search_results,
                    results, sentiment_results, overall_sentiment, most_positive,
                    most_negative, message >>

\* fetch_news 229-231
DashNoConfiguration ==
    /\ frontend = "dashboard" /\ pc = "started"
    /\ ~(news_source = "finnhub" /\ finnhub_client)
    /\ ~(news_source = "newsapi" /\ newsapi)
    /\ warnings' = warnings \cup { "no_api_configuration" }
    /\ pc' = "fetched"
    /\ UNCHANGED << config, tasks, company_name, news_source, company_symbol, calls,
                    search_results, news, articles, results, sentiment_results,
                    overall_sentiment, most_positive, most_negative, message >>

\* 454-458
DashNoArticles ==
    /\ frontend = "dashboard" /\ pc = "fetched"
    /\ Len(articles) = 0
    /\ warnings' = warnings \cup { "no_articles" }
    /\ message' = "no_articles"
    /\ pc' = "done"
    /\ UNCHANGED << config, tasks, company_name, news_source, company_symbol, calls,
                    search_results, news, articles, results, sentiment_results,
                    overall_sentiment, most_positive, most_negative >>

\* 312-320: an exception of the model call is not caught and ends the run.
DashClassify(answer) ==
    /\ frontend = "dashboard" /\ pc = "fetched"
    /\ Len(articles) > 0
    /\ LET out == DashAnalyzeSentiment(Headlines(articles), answer)
       IN  /\ sentiment_results' = out.value
           /\ pc' = IF out.raised THEN "done" ELSE "aggregate"
           /\ message' = IF out.raised THEN "exception" ELSE message
    /\ ModelCalled(answer)
    /\ UNCHANGED << config, tasks, company_name, news_source, company_symbol, search_results,
                    news, articles, overall_sentiment, most_positive, most_negative,
                    warnings >>

\* 323-359
DashAggregateStep ==
    /\ frontend = "dashboard" /\ pc = "aggregate"
    /\ \E dominant \in DashDominantChoices(DashRows(Headlines(articles), sentiment_results)) :
          overall_sentiment' =
              Some(DashAggregate(DashRows(Headlines(articles), sentiment_results), dominant))
    /\ pc' = "render"
    /\ UNCHANGED << config, tasks, company_name, news_source, company_symbol, calls,
                    search_results, news, articles, results, sentiment_results,
                    most_positive, most_negative, message, warnings >>

\* 361-452: the metrics divide by total_articles, the number of rows of df.
DashRender ==
    /\ frontend = "dashboard" /\ pc = "render"
    /\ IF overall_sentiment[1].total_articles = 0
       THEN /\ message' = "exception"
            /\ UNCHANGED << most_positive, most_negative >>
       ELSE /\ most_positive' \in
                  DashMostChoices(DashRows(Headlines(articles), sentiment_results), "Positive")
            /\ most_negative' \in
                  DashMostChoices(DashRows(Headlines(articles), sentiment_results), "Negative")
            /\ message' = "results"
    /\ pc' = "done"
    /\ UNCHANGED << config, tasks, company_name, news_source, company_symbol, calls,
                    search_results, news, articles, results, sentiment_results,
                    overall_sentiment, warnings >>

(***************************************************************************)
(* Inputs: what the user asks for and what the providers and the model     *)
(* answer.                                                                 *)
(***************************************************************************)
MaxNews == 2

MaxCandidates == 2

MaxTexts == 2

MaxClassified == 3

HeadlineNames == << "A", "B", "C", "D", "E", "F", "G", "H", "I", "J", "K" >>

\* Sequences over S of length at most n.
SeqsUpTo(S, n) == UNION { [1..k -> S] : k \in 0..n }

\* "" is the request without a company name.
CompanyInputs == { "", "Apple", "Infosys" }

Candidate(type, symbol) == [type |-> type, symbol |-> Some(symbol)]

CandidateInputs ==
    { Candidate("Common Stock", "AAPL"), Candidate("Common Stock", "AAPL.MX"),
      Candidate("ETP", "AAPL") }

\* symbol_lookup: raises, answers nothing usable, or answers candidates.
LookupAnswers ==
    { Raised, Returned(None) }
        \cup { Returned(Some(cs)) : cs \in SeqsUpTo(CandidateInputs, MaxCandidates) }

\* Headline lists of provider answers: the i-th entry has the headline
\* HeadlineNames[i] or an empty one.
HeadlineInputs ==
    { [i \in 1..Len(w) |-> IF w[i] THEN HeadlineNames[i] ELSE ""] :
        w \in SeqsUpTo(BOOLEAN, MaxNews) }

\* company_news: raises or answers a list of entries.
CompanyNewsAnswers ==
    { Raised } \cup { Returned([i \in 1..Len(hs) |-> [headline |-> hs[i]]]) :
                        hs \in HeadlineInputs }

\* get_everything: raises or answers {'status', 'articles'}.
EverythingAnswers ==
    { Raised, Returned([status |-> "error", articles |-> << >>]) }
        \cup { Returned([status |-> "ok",
                         articles |-> [i \in 1..Len(hs) |-> [title |-> hs[i]]]]) :
                 hs \in HeadlineInputs }

\* Model results: a single {label, score} or a list of them.
Single(label, score) ==
    [is_list |-> FALSE, items |-> << [label |-> label, score |-> score] >>]

Distribution(negative, neutral, positive) ==
    [is_list |-> TRUE,
     items |-> << [label |-> "negative", score |-> negative],
                  [label |-> "neutral", score |-> neutral],
                  [label |-> "positive", score |-> positive] >>]

\* The model raises or answers one result per text.
ModelAnswers(n, items) == { Raised } \cup { Returned(rs) : rs \in [1..n -> items] }

\* Results the model gives within a whole request.
RequestItems == { Single("LABEL_2", 90), Single("negative", 60), Single("MIXED", 60) }

\* Results the model gives when analyze_sentiment is exercised alone.
RawLabels ==
    { "LABEL_0", "LABEL_1", "LABEL_2", "negative", "Neutral", "POSITIVE",
      "LABEL_3", "mixed" }

RawScores == { 55, 87 }

ClassifyItems ==
    { Single(label, score) : label \in RawLabels, score \in RawScores }
        \cup { Distribution(10, 20, 70), Distribution(45, 45, 10), Distribution(5, 90, 5) }

\* The first n articles of a fetch.
FirstArticles(n) == [i \in 1..n |-> [title |-> HeadlineNames[i]]]

Classified(label, score) == [label |-> label, score |-> score]

\* What analyze_sentiment can return for an article: a canonical label or a
\* passed-through (upper-cased) one, with its score.
ClassifiedInputs ==
    { Classified(label, score) :
        label \in { "POSITIVE", "NEGATIVE", "NEUTRAL", "MIXED" }, score \in { 60, 90 } }

\* The worked scenarios: five articles (two positive, one negative, two
\* neutral), a three-to-three tie, one positive among neutral ones, one
\* positive before ten neutral ones.
ClassifiedExamples ==
    { << Classified("POSITIVE", 90), Classified("POSITIVE", 80), Classified("NEGATIVE", 70),
         Classified("NEUTRAL", 50), Classified("NEUTRAL", 60) >>,
      << Classified("POSITIVE", 90), Classified("NEGATIVE", 70), Classified("POSITIVE", 80),
         Classified("NEGATIVE", 60), Classified("POSITIVE", 60), Classified("NEGATIVE", 90) >>,
      << Classified("NEUTRAL", 60), Classified("NEUTRAL", 60), Classified("POSITIVE", 90),
         Classified("NEUTRAL", 70) >>,
      << Classified("POSITIVE", 90) >> \o [i \in 1..10 |-> Classified("NEUTRAL", 60)] }

(***************************************************************************)
(* The request pipeline of both front ends.                                *)
(***************************************************************************)
Next ==
    \/ \E company \in CompanyInputs : BotAnalyzeCommand(company)
    \/ \E answer \in EverythingAnswers : BotFetchNewsapi(answer)
    \/ \E answer \in LookupAnswers : BotGetSymbol(answer)
    \/ \E answer \in CompanyNewsAnswers : BotFetchFinnhub(answer)
    \/ BotNoArticles
    \/ BotFound
    \/ \E answer \in ModelAnswers(Len(articles), RequestItems) : BotClassify(answer)
    \/ BotAggregate
    \/ BotRender
    \/ \E company \in CompanyInputs : DashAnalyzeButton(company)
    \/ \E answer \in LookupAnswers : DashGetSymbol(answer)
    \/ \E answer \in CompanyNewsAnswers : DashFetchFinnhub(answer)
    \/ \E answer \in EverythingAnswers : DashFetchNewsapi(answer)
    \/ DashNoConfiguration
    \/ DashNoArticles
    \/ \E answer \in ModelAnswers(Len(articles), RequestItems) : DashClassify(answer)
    \/ DashAggregateStep
    \/ DashRender

Spec == Init /\ [][Next]_vars

(***************************************************************************)
(* analyze_sentiment exercised alone: called on a list of texts (possibly  *)
(* empty) with the model loaded or, in the bot, not loaded.                *)
(***************************************************************************)
InitClassify ==
    /\ frontend \in { "bot", "dashboard" }
    /\ newsapi_key = TRUE /\ finnhub_key = TRUE
    /\ newsapi = TRUE /\ finnhub_client = TRUE
    /\ sentiment_pipeline \in { loaded \in BOOLEAN : frontend = "dashboard" => loaded }
    /\ news_source = "finnhub"
    /\ num_articles = BotArticleLimit
    /\ pc = "analyze_sentiment"
    /\ company_name = "Apple"
    /\ company_symbol = None
    /\ calls = << >>
    /\ search_results = None
    /\ news = None
    /\ articles \in { FirstArticles(n) : n \in 0..MaxTexts }
    /\ results = None
    /\ sentiment_results = << >>
    /\ overall_sentiment = None
    /\ most_positive = None
    /\ most_negative = None
    /\ message = ""
    /\ warnings = {}
    /\ tasks = NoTasks

\* One call of analyze_sentiment(texts), texts being the articles' titles.
AnalyzeSentimentCall(answer) ==
    /\ pc = "analyze_sentiment"
    /\ LET out == AnalyzeSentiment(frontend, Headlines(articles), sentiment_pipeline, answer)
       IN  /\ sentiment_results' = out.value
           /\ pc' = IF out.raised THEN "raised" ELSE "returned"
    /\ ModelCalled(answer)
    /\ UNCHANGED << config, tasks, company_name, news_source, company_symbol, search_results,
                    news, articles, overall_sentiment, most_positive, most_negative,
                    message, warnings >>

NextClassify ==
    \E answer \in ModelAnswers(Len(articles), ClassifyItems) : AnalyzeSentimentCall(answer)

SpecClassify == InitClassify /\ [][NextClassify]_vars

(***************************************************************************)
(* The aggregator exercised alone: the request stands right after          *)
(* analyze_sentiment returned.  The bot's analyze_sentiment returns one    *)
(* result per article or none at all; the dashboard's one per article.     *)
(***************************************************************************)
ClassifiedSequences ==
    UNION { [1..n -> ClassifiedInputs] : n \in 1..MaxClassified } \cup ClassifiedExamples

InitAggregate ==
    /\ frontend \in { "bot", "dashboard" }
    /\ newsapi_key = TRUE /\ finnhub_key = TRUE
    /\ newsapi = TRUE /\ finnhub_client = TRUE
    /\ sentiment_pipeline \in BOOLEAN
    /\ news_source = "finnhub"
    /\ num_articles = BotArticleLimit
    /\ pc = "aggregate"
    /\ company_name = "Apple"
    /\ company_symbol = Some("AAPL")
    /\ calls = << >>
    /\ search_results = None
    /\ news = None
    /\ results = None
    /\ \/ /\ sentiment_pipeline
          /\ sentiment_results \in ClassifiedSequences
          /\ articles = FirstArticles(Len(sentiment_results))
       \/ /\ frontend = "bot" /\ ~sentiment_pipeline
          /\ sentiment_results = << >>
          /\ articles \in { FirstArticles(n) : n \in 1..MaxClassified }
    /\ overall_sentiment = None
    /\ most_positive = None
    /\ most_negative = None
    /\ message = IF frontend = "bot" THEN "running" ELSE "spinner"
    /\ warnings = {}
    /\ tasks = NoTasks

NextAggregate == BotAggregate \/ BotRender \/ DashAggregateStep \/ DashRender

SpecAggregate == InitAggregate /\ [][NextAggregate]_vars

(***************************************************************************)
(* fetch_news_finnhub exercised alone, on provider answers long enough to  *)
(* reach the article limit: some entries without a headline, the others    *)
(* with the headlines H1, H2, ... in provider order.                       *)
(***************************************************************************)
MaxEmpty == 2

MaxNamed == 21

\* The slider values fetch_news_finnhub is exercised with in the dashboard.
SliderChoices == { 5, 20 }

NamedEntries(from, to) ==
    [i \in 1..(to - from + 1) |-> [headline |-> "H" \o ToString(from + i - 1)]]

EmptyEntries(e) == [i \in 1..e |-> [headline |-> ""]]

\* `lead` entries with a headline, then `e` without, then the rest of the `n`
\* entries with a headline.
ProviderEntries(lead, e, n) ==
    NamedEntries(1, lead) \o EmptyEntries(e) \o NamedEntries(lead + 1, n)

FetchAnswers ==
    { Raised } \cup
    { Returned(ProviderEntries(lead, e, n)) :
        lead \in 0..1, e \in 0..MaxEmpty, n \in 1..MaxNamed }

InitFetch ==
    /\ frontend \in { "bot", "dashboard" }
    /\ newsapi_key = TRUE /\ finnhub_key = TRUE
    /\ newsapi = TRUE /\ finnhub_client \in BOOLEAN
    /\ sentiment_pipeline = TRUE
    /\ news_source = "finnhub"
    /\ num_articles \in (IF frontend = "bot" THEN { BotArticleLimit } ELSE SliderChoices)
    /\ pc = "fetch_news_finnhub"
    /\ company_name = "Apple"
    /\ company_symbol = Some("AAPL")
    /\ calls = << >>
    /\ search_results = None
    /\ news = None
    /\ articles = << >>
    /\ results = None
    /\ sentiment_results = << >>
    /\ overall_sentiment = None
    /\ most_positive = None
    /\ most_negative = None
    /\ message = ""
    /\ warnings = {}
    /\ tasks = NoTasks

\* One call of fetch_news_finnhub(company_symbol, ...).
FetchNewsFinnhubCall(answer) ==
    /\ pc = "fetch_news_finnhub"
    /\ articles' = FetchNewsFinnhub(finnhub_client, answer,
                                    IF frontend = "bot" THEN BotArticleLimit ELSE num_articles)
    /\ IF finnhub_client
       THEN /\ calls' = Append(calls, Call("company_news", company_symbol[1], answer))
            /\ news' = Some(answer)
       ELSE UNCHANGED << calls, news >>
    /\ pc' = "fetch_returned"
    /\ UNCHANGED << config, tasks, company_name, news_source, company_symbol, search_results,
                    results, sentiment_results, overall_sentiment, most_positive,
                    most_negative, message, warnings >>

NextFetch == \E answer \in FetchAnswers : FetchNewsFinnhubCall(answer)

SpecFetch == InitFetch /\ [][NextFetch]_vars

(***************************************************************************)
(* Two /analyze requests in one bot process.  analyze_command is a         *)
(* coroutine: its local variables live in its own frame, the event loop    *)
(* runs one coroutine at a time and may switch to another one wherever the *)
(* running one awaits.  The request variables above are the frame of the   *)
(* running coroutine; tasks.frames holds the frames of the suspended ones, *)
(* tasks.args the context.args each update came with.  The fields of self  *)
(* (the clients and the model) are the only state the coroutines share.    *)
(***************************************************************************)
TaskIds == { 1, 2 }

\* Positions at which analyze_command awaits (369, 382/391, 398, 420), has
\* not started yet or has returned.
AwaitPoints == { "idle", "started", "symbol", "classify", "done" }

\* The local variables of the running analyze_command.
CurrentFrame ==
    [pc |-> pc, company_name |-> company_name, news_source |-> news_source,
     company_symbol |-> company_symbol, calls |-> calls,
     search_results |-> search_results, news |-> news, articles |-> articles,
     results |-> results, sentiment_results |-> sentiment_results,
     overall_sentiment |-> overall_sentiment, most_positive |-> most_positive,
     most_negative |-> most_negative, message |-> message]

\* The frame of a coroutine that has not started.
IdleFrame ==
    [pc |-> "idle", company_name |-> "", news_source |-> "", company_symbol |-> None,
     calls |-> << >>, search_results |-> None, news |-> None, articles |-> << >>,
     results |-> None, sentiment_results |-> << >>, overall_sentiment |-> None,
     most_positive |-> None, most_negative |-> None, message |-> ""]

\* The switch with the fetched articles kept in one place for all coroutines
\* (as a field of self would be) instead of in each frame.
ResumeSharingArticles(r) ==
    /\ frontend = "bot"
    /\ r \in DOMAIN tasks.frames /\ r # tasks.running
    /\ pc \in AwaitPoints
    /\ tasks.frames[r].pc # "done"
    /\ tasks' = [tasks EXCEPT !.running = r,
                              !.frames = [@ EXCEPT ![tasks.running] = CurrentFrame,
                                                   ![r] = IdleFrame]]
    /\ pc' = tasks.frames[r].pc
    /\ company_name' = tasks.frames[r].company_name
    /\ news_source' = tasks.frames[r].news_source
    /\ company_symbol' = tasks.frames[r].company_symbol
    /\ calls' = tasks.frames[r].calls
    /\ search_results' = tasks.frames[r].search_results
    /\ news' = tasks.frames[r].news
    /\ results' = tasks.frames[r].results
    /\ sentiment_results' = tasks.frames[r].sentiment_results
    /\ overall_sentiment' = tasks.frames[r].overall_sentiment
    /\ most_positive' = tasks.frames[r].most_positive
    /\ most_negative' = tasks.frames[r].most_negative
    /\ message' = tasks.frames[r].message
    /\ UNCHANGED << config, articles, warnings >>

\* The event loop suspends the running coroutine at an await and resumes (or
\* starts) the coroutine r: the frame of the one is put aside, that of the
\* other comes back as it was left.
Resume(r) ==
    /\ frontend = "bot"
    /\ r \in DOMAIN tasks.frames /\ r # tasks.running
    /\ pc \in AwaitPoints
    /\ tasks.frames[r].pc # "done"
    /\ tasks' = [tasks EXCEPT !.running = r,
                              !.frames = [@ EXCEPT ![tasks.running] = CurrentFrame,
                                                   ![r] = IdleFrame]]
    /\ pc' = tasks.frames[r].pc
    /\ company_name' = tasks.frames[r].company_name
    /\ news_source' = tasks.frames[r].news_source
    /\ company_symbol' = tasks.frames[r].company_symbol
    /\ calls' = tasks.frames[r].calls
    /\ search_results' = tasks.frames[r].search_results
    /\ news' = tasks.frames[r].news
    /\ articles' = tasks.frames[r].articles
    /\ results' = tasks.frames[r].results
    /\ sentiment_results' = tasks.frames[r].sentiment_results
    /\ overall_sentiment' = tasks.frames[r].overall_sentiment
    /\ most_positive' = tasks.frames[r].most_positive
    /\ most_negative' = tasks.frames[r].most_negative
    /\ message' = tasks.frames[r].message
    /\ UNCHANGED << config, warnings >>

\* What the two updates ask for and what the providers and the model answer.
\* The companies of the two updates: both routed to Finnhub, one to each
\* provider, both to NewsAPI.
ConcurrentArgs ==
    { << "Apple", "Tesla" >>, << "Apple", "Infosys" >>, << "Infosys", "Reliance" >> }

ConcurrentLookupAnswers ==
    { Raised, Returned(Some(<< Candidate("Common Stock", "AAPL") >>)),
      Returned(Some(<< Candidate("Common Stock", "TSLA") >>)) }

ConcurrentHeadlines == { << >>, << "A" >>, << "B", "C" >> }

ConcurrentCompanyNewsAnswers ==
    { Raised } \cup { Returned([i \in 1..Len(hs) |-> [headline |-> hs[i]]]) :
                        hs \in ConcurrentHeadlines }

ConcurrentEverythingAnswers ==
    { Raised } \cup { Returned([status |-> "ok",
                                articles |-> [i \in 1..Len(hs) |-> [title |-> hs[i]]]]) :
                        hs \in ConcurrentHeadlines }

ConcurrentItems == { Single("LABEL_2", 90), Single("negative", 60) }

\* A bot with both clients and the model, and two updates for different
\* companies waiting to be handled.
InitConcurrent ==
    /\ frontend = "bot"
    /\ newsapi_key = TRUE /\ finnhub_key = TRUE
    /\ newsapi = TRUE /\ finnhub_client = TRUE
    /\ sentiment_pipeline = TRUE
    /\ news_source = ""
    /\ num_articles = BotArticleLimit
    /\ NoRequest
    /\ \E args \in ConcurrentArgs :
          tasks = [running |-> 1, args |-> args, frames |-> [t \in TaskIds |-> IdleFrame]]

NextConcurrent ==
    \/ \E company \in { tasks.args[tasks.running] } : BotAnalyzeCommand(company)
    \/ \E answer \in ConcurrentEverythingAnswers : BotFetchNewsapi(answer)
    \/ \E answer \in ConcurrentLookupAnswers : BotGetSymbol(answer)
    \/ \E answer \in ConcurrentCompanyNewsAnswers : BotFetchFinnhub(answer)
    \/ BotNoArticles
    \/ BotFound
    \/ \E answer \in ModelAnswers(Len(articles), ConcurrentItems) : BotClassify(answer)
    \/ BotAggregate
    \/ BotRender
    \/ \E r \in TaskIds : Resume(r)

SpecConcurrent == InitConcurrent /\ [][NextConcurrent]_vars

(***************************************************************************)
(* analyze_command run to its end: the bot's handler with the steps it is  *)
(* bound to take.  The handler is straight-line code; every await and      *)
(* every provider or model call returns or raises, so the step that is     *)
(* enabled is eventually taken (weak fairness on each stretch).            *)
(***************************************************************************)
InitAnalyzeCommand == BotConstructed /\ NoRequest /\ tasks = NoTasks

\* What the providers answer to the handler: as to the two coroutines above,
\* and also a lookup without candidates and a NewsAPI status other than ok.
HandlerLookupAnswers == ConcurrentLookupAnswers \cup { Returned(None) }

HandlerEverythingAnswers ==
    ConcurrentEverythingAnswers \cup { Returned([status |-> "error", articles |-> << >>]) }

NextAnalyzeCommand ==
    \/ \E company \in CompanyInputs : BotAnalyzeCommand(company)
    \/ \E answer \in HandlerEverythingAnswers : BotFetchNewsapi(answer)
    \/ \E answer \in HandlerLookupAnswers : BotGetSymbol(answer)
    \/ \E answer \in ConcurrentCompanyNewsAnswers : BotFetchFinnhub(answer)
    \/ BotNoArticles
    \/ BotFound
    \/ \E answer \in ModelAnswers(Len(articles), RequestItems) : BotClassify(answer)
    \/ BotAggregate
    \/ BotRender

SpecAnalyzeCommand ==
    InitAnalyzeCommand /\ [][NextAnalyzeCommand]_vars /\ WF_vars(NextAnalyzeCommand)

(***************************************************************************)
(* Properties.                                                             *)
(***************************************************************************)
CanonicalLabels == { "POSITIVE", "NEGATIVE", "NEUTRAL" }

\* The aggregate of the request, once computed.
Aggregated == overall_sentiment # None

Aggregate == overall_sentiment[1]

\* How many classified articles carry the label lab.
Classified_n(lab) ==
    Cardinality({ i \in 1..Len(sentiment_results) : sentiment_results[i].label = lab })

\* The label with strictly more articles than each of the two others, NEUTRAL
\* when there is none.
StrictlyGreatest ==
    LET p == Classified_n("POSITIVE")
        n == Classified_n("NEGATIVE")
        u == Classified_n("NEUTRAL")
    IN  IF p > n /\ p > u THEN "POSITIVE"
        ELSE IF n > p /\ n > u THEN "NEGATIVE"
        ELSE "NEUTRAL"

\* C1: the aggregate's dominant label is the label whose count is strictly
\* greater than both other counts, and NEUTRAL whenever two or more labels
\* share the greatest count; in the bot and in the dashboard.
C1_DominantIsStrictlyGreatest ==
    Aggregated /\ Len(sentiment_results) > 0
        => upper(Aggregate.overall_sentiment) = StrictlyGreatest

\* C2: in every result the positive, negative and neutral counts add up to
\* total_articles, which is the number of classified articles, whatever labels
\* the model returned.
C2_CountsAddUpToTotal ==
    Aggregated =>
        /\ Aggregate.positive_count + Aggregate.negative_count + Aggregate.neutral_count
               = Aggregate.total_articles
        /\ Aggregate.total_articles = Len(sentiment_results)

\* The label the model gave for its i-th text.
RawLabel(result) ==
    IF result.is_list THEN MaxByScore(result.items).label ELSE result.items[1].label

ModelAnswered == results # None /\ ~results[1].raised

Recognized(label) ==
    upper(label) \in { "LABEL_0", "LABEL_1", "LABEL_2", "NEGATIVE", "NEUTRAL", "POSITIVE" }

UnrecognizedLabelReturned ==
    /\ ModelAnswered
    /\ \E i \in 1..Len(results[1].value) : ~Recognized(RawLabel(results[1].value[i]))

\* C3: when the model returns a label outside LABEL_0/1/2 and
\* NEGATIVE/NEUTRAL/POSITIVE, the request fails with a classification error:
\* no such label is among the classified results, no aggregate is produced
\* and the request ends with an error.
C3_UnrecognizedLabelFailsRequest ==
    UnrecognizedLabelReturned =>
        /\ \A i \in 1..Len(sentiment_results) : sentiment_results[i].label \in CanonicalLabels
        /\ ~Aggregated
        /\ pc = "done" => message \in { "error", "exception" }

\* C4: analyze_sentiment maps LABEL_0 to NEGATIVE, LABEL_1 to NEUTRAL, LABEL_2
\* to POSITIVE and the names negative, neutral, positive in any letter case to
\* NEGATIVE, NEUTRAL, POSITIVE, and keeps the score as the confidence.
C4_LabelsNormalized ==
    pc = "returned" /\ ModelAnswered =>
        \A i \in 1..Len(results[1].value) :
            LET raw == results[1].value[i]
                out == sentiment_results[i]
            IN  ~raw.is_list =>
                    /\ raw.items[1].label = "LABEL_0" => out.label = "NEGATIVE"
                    /\ raw.items[1].label = "LABEL_1" => out.label = "NEUTRAL"
                    /\ raw.items[1].label = "LABEL_2" => out.label = "POSITIVE"
                    /\ lower(raw.items[1].label) = "negative" => out.label = "NEGATIVE"
                    /\ lower(raw.items[1].label) = "neutral" => out.label = "NEUTRAL"
                    /\ lower(raw.items[1].label) = "positive" => out.label = "POSITIVE"
                    /\ out.score = raw.items[1].score

\* LABEL_2 with score 0.87 came out as POSITIVE with confidence 0.87, and a
\* name not in upper case was mapped as well.
C4_Witness ==
    /\ pc = "returned" /\ ModelAnswered
    /\ Len(sentiment_results) = 2
    /\ results[1].value[1] = Single("LABEL_2", 87)
    /\ sentiment_results[1] = Classified("POSITIVE", 87)
    /\ results[1].value[2] = Single("Neutral", 55)
    /\ sentiment_results[2] = Classified("NEUTRAL", 55)

\* C5: analyze_sentiment returns one element per headline, element i being
\* the classification of headline i; an empty list of headlines gives an empty
\* list without a model call; a non-empty list never gives a shorter one, also
\* when the model is not loaded or its call raises.
C5_OneResultPerHeadline ==
    pc = "returned" =>
        /\ Len(sentiment_results) = Len(articles)
        /\ ModelAnswered =>
              \A i \in 1..Len(sentiment_results) :
                  LET raw == results[1].value[i]
                  IN  sentiment_results[i].score =
                          (IF raw.is_list THEN MaxByScore(raw.items) ELSE raw.items[1]).score
        /\ Len(articles) = 0 => results = None

\* C6: aggregating no classified articles gives NEUTRAL, confidence 0, the
\* three counts 0, total 0 and neither a top-positive nor a top-negative
\* headline.
C6_EmptyAggregate ==
    Aggregated /\ Len(sentiment_results) = 0 =>
        /\ upper(Aggregate.overall_sentiment) = "NEUTRAL"
        /\ Aggregate.confidence.sum = 0
        /\ Aggregate.positive_count = 0
        /\ Aggregate.negative_count = 0
        /\ Aggregate.neutral_count = 0
        /\ Aggregate.total_articles = 0
        /\ most_positive = None
        /\ most_negative = None

\* The bot aggregated an empty list of results and finished the request.
C6_Witness ==
    /\ Aggregated /\ Len(sentiment_results) = 0
    /\ Len(articles) > 0
    /\ pc = "done"

\* The sum, in hundredths, of the confidences of the first k classified articles.
RECURSIVE ConfidenceSum(_)
ConfidenceSum(k) ==
    IF k = 0 THEN 0 ELSE sentiment_results[k].score + ConfidenceSum(k - 1)

\* C7: for a non-empty list of classified articles with confidences in [0,1]
\* the average confidence is the sum of all confidences over the number of
\* articles, whatever their labels, and lies in [0,1].
C7_AverageOverAllArticles ==
    Aggregated /\ Len(sentiment_results) > 0 =>
        /\ Aggregate.confidence.n > 0
        /\ Aggregate.confidence.sum * Len(sentiment_results)
               = ConfidenceSum(Len(sentiment_results)) * Aggregate.confidence.n
        /\ 0 <= Aggregate.confidence.sum
        /\ Aggregate.confidence.sum <= 100 * Aggregate.confidence.n

\* Confidences 0.9, 0.8, 0.7, 0.5, 0.6 over three labels averaged to 0.70.
C7_Witness ==
    /\ Aggregated
    /\ Len(sentiment_results) = 5
    /\ [i \in 1..5 |-> sentiment_results[i].score] = << 90, 80, 70, 50, 60 >>
    /\ Aggregate.overall_sentiment = "POSITIVE"
    /\ Aggregate.confidence.sum = 70 * Aggregate.confidence.n

\* The indices of the classified articles of label lab.
IndicesOf(lab) == { i \in 1..Len(sentiment_results) : sentiment_results[i].label = lab }

\* The headline of the first article of greatest confidence among those of
\* label lab.
FirstBest(lab) ==
    articles[CHOOSE i \in IndicesOf(lab) :
                \A j \in IndicesOf(lab) :
                    \/ sentiment_results[j].score < sentiment_results[i].score
                    \/ sentiment_results[j].score = sentiment_results[i].score /\ i <= j].title

TopIsFirstBest(reported, lab) ==
    IF IndicesOf(lab) = {} THEN reported = None
    ELSE reported # None /\ reported[1] = FirstBest(lab)

\* C8: the reported most-positive (most-negative) headline is the POSITIVE
\* (NEGATIVE) article of highest confidence, the first in fetch order when
\* several share it, and none is reported when the label's count is zero.
C8_TopIsFirstOfBest ==
    message = "results" =>
        /\ TopIsFirstBest(most_positive, "POSITIVE")
        /\ TopIsFirstBest(most_negative, "NEGATIVE")

\* Symbol resolution failed: the lookup raised, gave no result, or gave no
\* common-stock candidate.
ResolutionFailed ==
    /\ news_source = "finnhub"
    /\ search_results # None
    /\ \/ search_results[1].raised
       \/ search_results[1].value = None
       \/ \A i \in 1..Len(search_results[1].value[1]) :
              search_results[1].value[1][i].type # "Common Stock"

NewsCalls(fn) == { i \in 1..Len(calls) : calls[i].fn = fn }

\* The reason the front end gives for an empty result, as the spec's codes.
ReasonShown ==
    IF warnings \cap { "symbol_not_found", "indian_company_hint" } # {}
    THEN "SYMBOL_UNRESOLVED"
    ELSE IF "no_api_configuration" \in warnings THEN "PROVIDER_UNAVAILABLE"
    ELSE "NONE"

\* C9: when Finnhub is used and symbol resolution fails, company_news is not
\* called and the request ends with no articles and the reason
\* SYMBOL_UNRESOLVED.
C9_UnresolvedSymbolEndsRequest ==
    ResolutionFailed =>
        /\ NewsCalls("company_news") = {}
        /\ pc = "done" =>
              /\ message = "no_articles"
              /\ Len(articles) = 0
              /\ ReasonShown = "SYMBOL_UNRESOLVED"

\* C10: a request calls the news endpoint of at most one provider, the one
\* selected for it, also after that provider returned nothing, failed or
\* lacked a prerequisite.
C10_OnlySelectedProviderFetched ==
    /\ NewsCalls("company_news") # {} => news_source = "finnhub"
    /\ NewsCalls("get_everything") # {} => news_source = "newsapi"
    /\ Cardinality(NewsCalls("company_news") \cup NewsCalls("get_everything")) <= 1

\* A dashboard request for Finnhub ended without articles (the symbol was not
\* resolved, or no Finnhub client exists while a NewsAPI client does) and
\* NewsAPI was not asked.
C10_Witness ==
    /\ frontend = "dashboard" /\ pc = "done"
    /\ news_source = "finnhub" /\ newsapi /\ ~finnhub_client
    /\ message = "no_articles"
    /\ NewsCalls("get_everything") = {}

\* The client of the request's provider does not exist (its key is not set or
\* its construction failed).
ProviderAbsent ==
    \/ news_source = "finnhub" /\ ~finnhub_client
    \/ news_source = "newsapi" /\ ~newsapi

\* The request was made for a company and its provider is known.
Requested == pc # "idle" /\ company_name # "" /\ news_source # ""

\* The front end told the user that the provider is not available.
UnavailableShown == message = "missing_key" \/ "no_api_configuration" \in warnings

\* C11: when the client of the request's provider is absent, the request calls
\* neither symbol_lookup nor the news endpoint of that provider, nor anything
\* of the other provider, and ends without articles reporting that the
\* provider is unavailable, which a plain no-articles result does not.
C11_AbsentProviderReported ==
    Requested /\ ProviderAbsent =>
        /\ NewsCalls("symbol_lookup") = {}
        /\ NewsCalls("company_news") = {}
        /\ NewsCalls("get_everything") = {}
        /\ pc = "done" => Len(articles) = 0 /\ UnavailableShown

ProviderFunctions == { "symbol_lookup", "company_news", "get_everything" }

\* A provider call of the request raised, or NewsAPI answered with a status
\* other than ok.
ProviderFailed ==
    \/ \E i \in 1..Len(calls) : calls[i].fn \in ProviderFunctions /\ calls[i].raised
    \/ /\ news_source = "newsapi"
       /\ news # None
       /\ ~news[1].raised
       /\ news[1].value.status # "ok"

\* The front end told the user that a provider call failed.
FailureShown == warnings \cap { "fetch_error", "symbol_lookup_failed" } # {}

\* C12: when a provider call raises or the provider answers with a non-ok
\* status, the fetch returns no articles and no exception leaves it; the
\* request ends as a no-articles result together with a reason that tells
\* the provider failure from the absence of news.
C12_ProviderFailureReported ==
    ProviderFailed /\ pc = "done" =>
        /\ Len(articles) = 0
        /\ message = "no_articles"
        /\ FailureShown

\* The stage an external call belongs to: resolve, fetch, classify.
CallStage(fn) ==
    CASE fn = "symbol_lookup" -> 1
      [] fn \in { "company_news", "get_everything" } -> 2
      [] fn = "sentiment_pipeline" -> 3

\* The fetch of the request returned (a request may end before it fetches:
\* without a company name, or in the dashboard without the provider's key).
Fetched ==
    \/ pc \in { "fetched", "classify", "aggregate", "render" }
    \/ pc = "done" /\ message \notin { "usage", "welcome", "missing_key" }

\* C13: a request resolves, fetches, classifies and aggregates in this order:
\* the model is called only after the fetch returned articles, the aggregate is
\* computed only after the classification; when the fetch yields no article,
\* the classifier and the aggregator are not invoked and the request ends with
\* the empty (no articles) result.
C13_StagesInOrder ==
    /\ \A i, j \in 1..Len(calls) : i < j => CallStage(calls[i].fn) < CallStage(calls[j].fn)
    /\ results # None \/ sentiment_results # << >> => Fetched /\ Len(articles) > 0
    /\ Aggregated =>
          /\ pc \in { "render", "done" }
          /\ Len(articles) > 0
          /\ sentiment_pipeline => results # None
    /\ Fetched /\ Len(articles) = 0 =>
          /\ results = None
          /\ sentiment_results = << >>
          /\ ~Aggregated
          /\ pc = "done" => message = "no_articles"

\* The provider was asked, answered an empty list, and the request ended with
\* the no-articles result without a model call or an aggregate.
C13_Witness ==
    /\ pc = "done" /\ message = "no_articles"
    /\ news # None /\ ~news[1].raised
    /\ Len(calls) > 0
    /\ results = None /\ ~Aggregated

\* C15: every headline handed to analyze_sentiment is a non-empty string, with
\* either provider and in either front end.
C15_NoEmptyHeadlineClassified ==
    pc \in { "aggregate", "render" } \/ results # None =>
        \A i \in 1..Len(articles) : articles[i].title # ""

\* C16: a result with total_articles = 0 is rendered with its percentages
\* reported as 0 and without a division error, also when articles were fetched
\* and the classifier returned no results.
C16_ZeroTotalRendered ==
    pc = "done" /\ Aggregated /\ Aggregate.total_articles = 0 => message = "results"

\* NotFound, or the symbol the lookup's answer determines: that of the first
\* common-stock candidate without a '.' in its symbol, else that of the first
\* common-stock candidate.
ExpectedSymbol(answer) ==
    IF answer.raised \/ answer.value = None THEN None
    ELSE LET cs     == answer.value[1]
             common == { i \in 1..Len(cs) : cs[i].type = "Common Stock" }
             us     == { i \in common : ~Contains(SymbolOrEmpty(cs[i]), ".") }
             First(S) == CHOOSE i \in S : \A j \in S : i <= j
         IN  IF us # {} THEN cs[First(us)].symbol
             ELSE IF common # {} THEN cs[First(common)].symbol
             ELSE None

\* C17: get_company_symbol returns the symbol of the first common-stock
\* candidate whose symbol has no '.', else that of the first common-stock
\* candidate, else NotFound; a provider error or an answer without candidates
\* gives NotFound, never the company name.
C17_SymbolSelection ==
    search_results # None => company_symbol = ExpectedSymbol(search_results[1])

\* C18: within a request each external call (symbol_lookup, company_news,
\* get_everything, the sentiment model) is made at most once, hence never
\* again after it failed.
C18_NoCallRepeated ==
    \A i, j \in 1..Len(calls) : i # j => calls[i].fn # calls[j].fn

\* The news call of a finished request raised and was its last provider call.
C18_Witness ==
    /\ pc = "done"
    /\ \E i \in 1..Len(calls) :
          /\ calls[i].fn \in { "company_news", "get_everything" }
          /\ calls[i].raised
          /\ i = Len(calls)

\* The canonical label of a model label.
NormalLabel(label) ==
    CASE upper(label) \in { "LABEL_0", "NEGATIVE" } -> "NEGATIVE"
      [] upper(label) \in { "LABEL_1", "NEUTRAL" } -> "NEUTRAL"
      [] upper(label) \in { "LABEL_2", "POSITIVE" } -> "POSITIVE"
      [] OTHER -> upper(label)

\* C20: when the model returns a list of label/score pairs for a headline,
\* analyze_sentiment reports a pair of that list with its label normalized and
\* its score as the confidence, and no score of the list is greater.
C20_ListResultTakesMaximum ==
    pc = "returned" /\ ModelAnswered =>
        \A i \in 1..Len(results[1].value) :
            LET raw == results[1].value[i]
                out == sentiment_results[i]
            IN  raw.is_list =>
                    /\ \E k \in 1..Len(raw.items) :
                          /\ out.score = raw.items[k].score
                          /\ out.label = NormalLabel(raw.items[k].label)
                    /\ \A j \in 1..Len(raw.items) : raw.items[j].score <= out.score

\* The distribution negative 0.10, neutral 0.20, positive 0.70 came out as
\* POSITIVE with confidence 0.70.
C20_Witness ==
    /\ pc = "returned" /\ ModelAnswered
    /\ Len(sentiment_results) > 0
    /\ results[1].value[1] = Distribution(10, 20, 70)
    /\ sentiment_results[1] = Classified("POSITIVE", 70)

\* The provider's entries that have a headline, in provider order.
RECURSIVE NamedHeadlines(_)
NamedHeadlines(entries) ==
    IF Len(entries) = 0 THEN << >>
    ELSE IF entries[1].headline # "" THEN << entries[1].headline >> \o NamedHeadlines(Tail(entries))
    ELSE NamedHeadlines(Tail(entries))

\* max_articles of the fetch: 20 in the bot, the slider's value in the dashboard.
MaxArticles == IF frontend = "bot" THEN 20 ELSE num_articles

\* C14: fetch_news_finnhub drops the entries without a headline first and
\* truncates afterwards: when the provider answers at least max_articles
\* entries that have a headline, it returns exactly the first max_articles of
\* them, however many entries without a headline come before.
C14_FilterBeforeTruncate ==
    pc = "fetch_returned" /\ news # None /\ ~news[1].raised =>
        LET named == NamedHeadlines(news[1].value)
        IN  Len(named) >= MaxArticles =>
                Headlines(articles) = SubSeq(named, 1, MaxArticles)

\* The frame of the coroutine t, running or suspended.
FrameOf(t) == IF t = tasks.running THEN CurrentFrame ELSE tasks.frames[t]

\* The fields of self are as the constructor left them.
SharedStateAsConstructed ==
    /\ frontend = "bot"
    /\ newsapi /\ finnhub_client /\ sentiment_pipeline
    /\ num_articles = BotArticleLimit

\* The finished request t has the result its company and the answers it
\* received determine when a request runs alone.
RanAsAlone(t) ==
    LET f       == FrameOf(t)
        company == tasks.args[t]
        source  == IF UseNewsapi(company) THEN "newsapi" ELSE "finnhub"
        symbol  == IF source = "finnhub"
                   THEN Some(BotGetCompanySymbol(company, TRUE, f.search_results[1]))
                   ELSE None
        arts    == IF source = "newsapi" THEN BotFetchNewsNewsapi(TRUE, f.news[1])
                   ELSE FetchNewsFinnhub(TRUE, f.news[1], BotArticleLimit)
        classified == IF Len(arts) = 0 THEN << >>
                      ELSE BotAnalyzeSentiment(Headlines(arts), TRUE, f.results[1]).value
        rendered == Len(arts) > 0 /\ Len(classified) > 0
    IN  f.pc = "done" =>
            /\ f.company_name = company
            /\ f.news_source = source
            /\ f.company_symbol = symbol
            /\ \A i \in 1..Len(f.calls) :
                  f.calls[i].arg \in { company, BotSearchQuery(company), "" }
                                         \cup { symbol[k] : k \in 1..Len(symbol) }
            /\ f.articles = arts
            /\ f.sentiment_results = classified
            /\ f.overall_sentiment = IF Len(arts) = 0 THEN None
                                     ELSE Some(calculate_overall_sentiment(classified))
            /\ f.most_positive = IF rendered THEN BotMost(BotRows(arts, classified), "POSITIVE")
                                 ELSE None
            /\ f.most_negative = IF rendered THEN BotMost(BotRows(arts, classified), "NEGATIVE")
                                 ELSE None
            /\ f.message = IF Len(arts) = 0 THEN "no_articles"
                           ELSE IF rendered THEN "results" ELSE "error"

\* C19: two analyze requests for different companies interleaved at their
\* awaits in one bot process do not interfere: each ends with the company,
\* provider, articles, counts and dominant label it would have alone on the
\* same provider and model answers, and the state the requests share is never
\* written.
C19_RequestsDoNotInterfere ==
    /\ SharedStateAsConstructed
    /\ \A t \in DOMAIN tasks.frames : RanAsAlone(t)

\* A request ended with its results while the other one, for another company
\* and with other articles, stood suspended between its fetch and its
\* classification.
C19_Witness ==
    /\ DOMAIN tasks.frames = TaskIds
    /\ pc = "done" /\ message = "results"
    /\ \E t \in TaskIds :
          /\ t # tasks.running
          /\ tasks.frames[t].pc = "classify"
          /\ tasks.frames[t].company_name # company_name
          /\ tasks.frames[t].articles # articles

\* s without its trailing spaces.
RECURSIVE RStrip(_)
RStrip(s) ==
    IF Len(s) > 0 /\ SubSeq(s, Len(s), Len(s)) = " " THEN RStrip(SubSeq(s, 1, Len(s) - 1))
    ELSE s

\* The terms joined by OR.
RECURSIVE JoinOr(_)
JoinOr(terms) ==
    IF Len(terms) = 0 THEN ""
    ELSE IF Len(terms) = 1 THEN terms[1]
    ELSE terms[1] \o " OR " \o JoinOr(Tail(terms))

\* The quoted terms of the query for a company.
QueryTerms(company) ==
    << Quoted(company), Quoted(company \o " stock"), Quoted(company \o " shares") >>
        \o (IF \E word \in QueryKeywords : Contains(lower(company), word)
            THEN << Quoted(company \o " India"), Quoted(company \o " NSE"),
                    Quoted(company \o " BSE") >>
            ELSE << >>)

\* C21: the search query handed to get_everything is the disjunction of the
\* quoted terms "<company>", "<company> stock", "<company> shares" and, exactly
\* when the lower-cased company name contains a curated keyword, "<company>
\* India", "<company> NSE", "<company> BSE", every two adjacent terms joined by
\* OR; the bot and the dashboard build the same query (trailing blanks aside).
C21_QueryIsDisjunction ==
    \A i \in NewsCalls("get_everything") :
        RStrip(calls[i].arg) = JoinOr(QueryTerms(company_name))

\* C22: in the bot the neutral count has no part in the verdict: for a
\* non-empty list of results the overall sentiment is POSITIVE exactly when
\* there are more positive than negative articles, NEGATIVE exactly when there
\* are more negative than positive ones, NEUTRAL exactly when they are as many.
C22_NeutralCountIgnored ==
    frontend = "bot" /\ Aggregated /\ Len(sentiment_results) > 0 =>
        LET p == Classified_n("POSITIVE")
            n == Classified_n("NEGATIVE")
        IN  /\ Aggregate.overall_sentiment = "POSITIVE" <=> p > n
            /\ Aggregate.overall_sentiment = "NEGATIVE" <=> n > p
            /\ Aggregate.overall_sentiment = "NEUTRAL" <=> p = n

\* One positive, no negative and ten neutral articles were reported POSITIVE.
C22_Witness ==
    /\ frontend = "bot" /\ Aggregated
    /\ Classified_n("POSITIVE") = 1
    /\ Classified_n("NEGATIVE") = 0
    /\ Classified_n("NEUTRAL") = 10
    /\ Aggregate.overall_sentiment = "POSITIVE"
    /\ Aggregate.neutral_count = 10

\* The status message was sent: the handler is past its first reply.
StatusSent == frontend = "bot" /\ pc # "idle" /\ company_name # ""

\* The last edit of the status message is one of the three final messages.
FinalMessageShown == message \in { "no_articles", "results", "error" }

\* A statement of the try block raised: the model has one such statement, the
\* division by total_articles in the result message.
RaisedInTry == Aggregated /\ Aggregate.total_articles = 0

\* C23: analyze_command with a company name terminates; once the status
\* message is sent, its last edit is the no-articles, the results or the error
\* message; an exception raised inside the try block ends in the error message
\* and never in a results message.
C23_EndsWithFinalMessage ==
    /\ [](StatusSent /\ pc = "done" =>
            /\ FinalMessageShown
            /\ RaisedInTry => message = "error"
            /\ message = "results" => ~RaisedInTry)
    /\ (StatusSent ~> (pc = "done"))

\* The model was not loaded, no article was classified, the result message
\* divided by zero and the request ended with the error message.
C23_Witness ==
    /\ StatusSent /\ pc = "done"
    /\ Len(articles) > 0
    /\ RaisedInTry
    /\ message = "error"

=============================================================================
